---- MODULE Spec2Model ----
(***************************************************************************)
(* Model of ProyectoIntegrador.py: the Kernel (ready queue, scheduling     *)
(* disciplines, mailboxes, event log) and its Recursos pool.               *)
(*                                                                         *)
(* The log keeps the events without their wall-clock timestamp; an event   *)
(* is a record whose field ev names the message that log_evento formats.   *)
(* Python's None is modelled by the empty tuple.                           *)
(*                                                                         *)
(* Specifications:                                                         *)
(*   Spec      nuevo_proceso and ejecutar, as the menu loop calls them;    *)
(*             ejecutar is split at its time.sleep and at its loop head.   *)
(*   LiveSpec  Spec with weak fairness of the steps inside ejecutar.       *)
(*   SpecPool  Spec together with direct Recursos.asignar / liberar calls  *)
(*             on the kernel's pool between operations.                    *)
(*   SpecBuzon enviar_mensaje and recibir_mensaje.                         *)
(*   SpecDefecto  Spec for Kernel("FCFS") and for kernels built with a     *)
(*             discipline name that the code does not test for.            *)
(*   SpecPC    productor_consumidor, called up to MaxLanz times, and the   *)
(*             steps of the threads it starts.                             *)
(*   LiveSpecDemo  one productor_consumidor call with weak fairness of     *)
(*             each of its threads.                                        *)
(* Kernel.__init__ builds Recursos() with cpu_total = 1; the model draws   *)
(* cpu_total from 1..MaxCpu, the parameter of Recursos.__init__.           *)
(***************************************************************************)
EXTENDS Integers, Sequences, FiniteSets, TLC

\* ------------------------------------------------------------------ bounds
MaxProcs   == 3     \* processes created by nuevo_proceso
MaxPrio    == 3     \* priorities are drawn from 1..MaxPrio
MaxBurst   == 3     \* bursts are drawn from 0..MaxBurst
MaxQuantum == 2     \* Round Robin quantum is drawn from 1..MaxQuantum
MaxCpu     == 2     \* cpu_total is drawn from 1..MaxCpu
MaxDenied  == 2     \* admission denials logged by one kernel
MaxSend    == 3     \* messages sent
MaxRecv    == 4     \* receive attempts
MaxLanz    == 2     \* calls of productor_consumidor on one kernel

\* ------------------------------------------------------- program constants
mem_total == 4096

\* threading.Semaphore(1) of Kernel.__init__
ValorInicial == 1

\* range(3) of productor and consumidor
Iteraciones == 3

None == << >>

Algoritmos  == {"FCFS", "SJF", "RR", "Prioridad"}
Tipos       == {"CPU", "Memoria"}
Prioridades == 1..MaxPrio
Rafagas     == 0..MaxBurst
Textos      == {"A", "B", "C"}
BuzonPids   == 1..2

VARIABLES
    algoritmo,    \* Kernel.algoritmo
    quantum,      \* Kernel.quantum
    procesos,     \* Kernel.procesos: pid -> PCB
    cola,         \* Kernel.cola, as a sequence of pids
    cpu_total,    \* Recursos.cpu_total
    cpu_libre,    \* Recursos.cpu_libre
    mem_libre,    \* Recursos.mem_libre
    log,          \* Kernel.log
    buzon,        \* Kernel.buzon: pid -> queue of <<de_pid, mensaje>>
    pid_counter,  \* Kernel.pid_counter
    pc,           \* "idle" between operations, "run" inside ejecutar
    proc,         \* ejecutar's local proc while it holds the CPU slice, else 0
    uso,          \* ejecutar's local uso of the slice under way
    ret,          \* the last completed call: its name and its return value
    semaforo,     \* Kernel.semaforo: the value of the counting semaphore
    buffers,      \* the local buffer of each productor_consumidor call
    hilos         \* the threads started so far: role, call, loop index, position

vars == <<algoritmo, quantum, procesos, cola, cpu_total, cpu_libre, mem_libre,
          log, buzon, pid_counter, pc, proc, uso, ret, semaforo, buffers, hilos>>

pcVars == <<semaforo, buffers, hilos>>

schedVars == <<algoritmo, quantum, procesos, cola, cpu_total, cpu_libre,
               mem_libre, pid_counter, pc, proc, uso>>

\* ----------------------------------------------------------------- helpers
Min(a, b) == IF a <= b THEN a ELSE b

Llamada(op, val) == [op |-> op, val |-> val]

\* PCB(pid, prioridad, rafaga) followed by __post_init__
PCB(pid, prioridad, rafaga) ==
    [pid        |-> pid,
     prioridad  |-> prioridad,
     rafaga     |-> rafaga,
     estado     |-> "Listo",
     restante   |-> rafaga,
     sort_index |-> prioridad,
     recursos   |-> [CPU |-> 0, Memoria |-> 0]]

\* Insertar puts x behind every element whose key is not greater than x's
\* (estable), or before the first element whose key is not smaller (~estable)
RECURSIVE Insertar(_, _, _, _)
Insertar(s, x, key, estable) ==
    IF s = << >> THEN <<x>>
    ELSE IF key[Head(s)] < key[x] \/ (estable /\ key[Head(s)] = key[x])
         THEN <<Head(s)>> \o Insertar(Tail(s), x, key, estable)
         ELSE <<x>> \o s

\* insertion sort of s, ascending in the key
RECURSIVE Ordenar(_, _, _)
Ordenar(s, key, estable) ==
    IF s = << >> THEN << >>
    ELSE Insertar(Ordenar(SubSeq(s, 1, Len(s) - 1), key, estable),
                  s[Len(s)], key, estable)

\* a sort that reverses the elements of equal key
OrdenInestable(s, key) == Ordenar(s, key, FALSE)

\* list.sort(key=...): ascending in the key, and stable
OrdenEstable(s, key) == Ordenar(s, key, TRUE)

\* ordenar_cola with the FCFS key negated
ordenar_cola_fcfs_inverso(q) ==
    IF algoritmo = "SJF"
    THEN OrdenEstable(q, [p \in DOMAIN procesos |-> procesos[p].restante])
    ELSE IF algoritmo = "Prioridad"
    THEN OrdenEstable(q, [p \in DOMAIN procesos |-> 0 - procesos[p].prioridad])
    ELSE IF algoritmo = "FCFS"
    THEN OrdenEstable(q, [p \in DOMAIN procesos |-> 0 - procesos[p].pid])
    ELSE q

\* ordenar_cola with a final else that sorts by descending pid
ordenar_cola_otro_inverso(q) ==
    IF algoritmo = "SJF"
    THEN OrdenEstable(q, [p \in DOMAIN procesos |-> procesos[p].restante])
    ELSE IF algoritmo = "Prioridad"
    THEN OrdenEstable(q, [p \in DOMAIN procesos |-> 0 - procesos[p].prioridad])
    ELSE IF algoritmo = "FCFS"
    THEN OrdenEstable(q, [p \in DOMAIN procesos |-> procesos[p].pid])
    ELSE OrdenEstable(q, [p \in DOMAIN procesos |-> 0 - procesos[p].pid])

\* ordenar_cola that leaves the queue as it is
ordenar_cola_sin_orden(q) == q

\* Kernel.ordenar_cola
ordenar_cola(q) ==
    IF algoritmo = "SJF"
    THEN OrdenEstable(q, [p \in DOMAIN procesos |-> procesos[p].restante])
    ELSE IF algoritmo = "Prioridad"
    THEN OrdenEstable(q, [p \in DOMAIN procesos |-> 0 - procesos[p].prioridad])
    ELSE IF algoritmo = "FCFS"
    THEN OrdenEstable(q, [p \in DOMAIN procesos |-> procesos[p].pid])
    ELSE q

\* asignar with > for >=: the last free unit is never handed out
asignar_estricto(libreCpu, libreMem, rec, tipo, cantidad) ==
    IF tipo = "CPU" /\ libreCpu > cantidad
    THEN [cpu |-> libreCpu - cantidad, mem |-> libreMem,
          rec |-> [rec EXCEPT !.CPU = @ + cantidad], ok |-> TRUE]
    ELSE IF tipo = "Memoria" /\ libreMem > cantidad
    THEN [cpu |-> libreCpu, mem |-> libreMem - cantidad,
          rec |-> [rec EXCEPT !.Memoria = @ + cantidad], ok |-> TRUE]
    ELSE [cpu |-> libreCpu, mem |-> libreMem, rec |-> rec, ok |-> FALSE]

\* asignar without the test of the free amount: every request is granted
asignar_sin_control(libreCpu, libreMem, rec, tipo, cantidad) ==
    IF tipo = "CPU"
    THEN [cpu |-> libreCpu - cantidad, mem |-> libreMem,
          rec |-> [rec EXCEPT !.CPU = @ + cantidad], ok |-> TRUE]
    ELSE IF tipo = "Memoria"
    THEN [cpu |-> libreCpu, mem |-> libreMem - cantidad,
          rec |-> [rec EXCEPT !.Memoria = @ + cantidad], ok |-> TRUE]
    ELSE [cpu |-> libreCpu, mem |-> libreMem, rec |-> rec, ok |-> FALSE]

\* Recursos.asignar: the pool and the holdings after the call, and its result
asignar(libreCpu, libreMem, rec, tipo, cantidad) ==
    IF tipo = "CPU" /\ libreCpu >= cantidad
    THEN [cpu |-> libreCpu - cantidad, mem |-> libreMem,
          rec |-> [rec EXCEPT !.CPU = @ + cantidad], ok |-> TRUE]
    ELSE IF tipo = "Memoria" /\ libreMem >= cantidad
    THEN [cpu |-> libreCpu, mem |-> libreMem - cantidad,
          rec |-> [rec EXCEPT !.Memoria = @ + cantidad], ok |-> TRUE]
    ELSE [cpu |-> libreCpu, mem |-> libreMem, rec |-> rec, ok |-> FALSE]

\* liberar with the memory never given back to the pool
liberar_sin_memoria(libreCpu, libreMem, rec) ==
    [cpu |-> libreCpu + rec.CPU,
     mem |-> libreMem,
     rec |-> [CPU |-> 0, Memoria |-> 0]]

\* liberar that gives everything back but leaves the holdings as they were
liberar_sin_cero(libreCpu, libreMem, rec) ==
    [cpu |-> libreCpu + rec.CPU,
     mem |-> libreMem + rec.Memoria,
     rec |-> rec]

\* liberar with the CPU never given back to the pool
liberar_sin_cpu(libreCpu, libreMem, rec) ==
    [cpu |-> libreCpu,
     mem |-> libreMem + rec.Memoria,
     rec |-> [CPU |-> 0, Memoria |-> 0]]

\* Recursos.liberar: the pool and the holdings after the call
liberar(libreCpu, libreMem, rec) ==
    [cpu |-> libreCpu + rec.CPU,
     mem |-> libreMem + rec.Memoria,
     rec |-> [CPU |-> 0, Memoria |-> 0]]

\* the slice length with the quantum ignored: every discipline runs to the end
Uso_sin_cuanto(restante) == restante

\* the slice length with the quantum applied under every discipline
Uso_cuanto_siempre(restante) == Min(restante, quantum)

\* the slice length computed by ejecutar
Uso(restante) ==
    IF algoritmo = "RR" THEN Min(restante, quantum) ELSE restante

\* the end-of-process test with < for <=
Acabado_estricto(restante) == restante < 0

\* the test that ends a process after its slice
Acabado(restante) == restante <= 0

\* ------------------------------------------------------------------- state
\* Kernel.__init__ and Recursos.__init__, for a discipline name among nombres;
\* menu() passes the quantum 2 with every name but RR
InitCon(nombres) ==
    /\ algoritmo \in nombres
    /\ quantum \in (IF algoritmo \in Algoritmos \ {"RR"} THEN {2}
                    ELSE 1..MaxQuantum)
    /\ procesos = << >>
    /\ cola = << >>
    /\ cpu_total \in 1..MaxCpu
    /\ cpu_libre = cpu_total
    /\ mem_libre = mem_total
    /\ log = << >>
    /\ buzon = << >>
    /\ pid_counter = 1
    /\ pc = "idle"
    /\ proc = 0
    /\ uso = 0
    /\ ret = Llamada("__init__", None)
    /\ semaforo = ValorInicial
    /\ buffers = << >>
    /\ hilos = << >>

\* menu() followed by Kernel.__init__: the name is one of the four of line 167
Init == InitCon(Algoritmos)

\* nuevo_proceso without line 74: pid_counter is never advanced
nuevo_proceso_sin_incremento(prioridad, rafaga) ==
    /\ pc = "idle"
    /\ pid_counter <= MaxProcs
    /\ procesos' = [p \in DOMAIN procesos \cup {pid_counter} |->
                      IF p = pid_counter THEN PCB(pid_counter, prioridad, rafaga)
                      ELSE procesos[p]]
    /\ cola' = Append(cola, pid_counter)
    /\ log' = Append(log, [ev |-> "creado", pid |-> pid_counter,
                           prioridad |-> prioridad, rafaga |-> rafaga])
    /\ pid_counter' = pid_counter
    /\ ret' = Llamada("nuevo_proceso", None)
    /\ UNCHANGED <<algoritmo, quantum, cpu_total, cpu_libre, mem_libre, buzon,
                   pc, proc, uso>>
    /\ UNCHANGED pcVars

\* Kernel.nuevo_proceso
nuevo_proceso(prioridad, rafaga) ==
    /\ pc = "idle"
    /\ pid_counter <= MaxProcs
    /\ procesos' = [p \in DOMAIN procesos \cup {pid_counter} |->
                      IF p = pid_counter THEN PCB(pid_counter, prioridad, rafaga)
                      ELSE procesos[p]]
    /\ cola' = Append(cola, pid_counter)
    /\ log' = Append(log, [ev |-> "creado", pid |-> pid_counter,
                           prioridad |-> prioridad, rafaga |-> rafaga])
    /\ pid_counter' = pid_counter + 1
    /\ ret' = Llamada("nuevo_proceso", None)
    /\ UNCHANGED <<algoritmo, quantum, cpu_total, cpu_libre, mem_libre, buzon,
                   pc, proc, uso>>
    /\ UNCHANGED pcVars

\* Kernel.ejecutar, line 85: the queue is ordered once, before the loop
ejecutar_inicio ==
    /\ pc = "idle"
    /\ pc' = "run"
    /\ cola' = ordenar_cola(cola)
    /\ UNCHANGED <<algoritmo, quantum, procesos, cpu_total, cpu_libre, mem_libre,
                   log, buzon, pid_counter, proc, uso, ret>>
    /\ UNCHANGED pcVars

Denegados == Cardinality({i \in DOMAIN log : log[i].ev = "reprogramado"})

\* Kernel.ejecutar, lines 86-95: pop the head and try to admit it; the step
\* ends at the simulated time.sleep of the slice, or at the denial's continue
ejecutar_despacho ==
    /\ pc = "run"
    /\ proc = 0
    /\ cola # << >>
    /\ LET p == Head(cola)
           r == asignar(cpu_libre, mem_libre, procesos[p].recursos, "CPU", 1)
       IN IF ~r.ok
          THEN /\ Denegados < MaxDenied
               /\ log' = Append(log, [ev |-> "reprogramado", pid |-> p])
               /\ cola' = Append(Tail(cola), p)
               /\ UNCHANGED <<procesos, cpu_libre, mem_libre, proc, uso>>
          ELSE /\ cola' = Tail(cola)
               /\ cpu_libre' = r.cpu
               /\ mem_libre' = r.mem
               /\ procesos' = [procesos EXCEPT ![p].recursos = r.rec,
                                               ![p].estado = "Ejecutando"]
               /\ uso' = Uso(procesos[p].restante)
               /\ proc' = p
               /\ log' = Append(log, [ev |-> "ejecutando", pid |-> p,
                                      uso |-> Uso(procesos[p].restante)])
    /\ UNCHANGED <<algoritmo, quantum, cpu_total, buzon, pid_counter, pc, ret>>
    /\ UNCHANGED pcVars

\* the end of the slice without the else of line 101: a finished process is
\* appended to the queue as well
ejecutar_fin_rodaja_reencola ==
    /\ pc = "run"
    /\ proc # 0
    /\ LET resto == procesos[proc].restante - uso
           r     == liberar(cpu_libre, mem_libre, procesos[proc].recursos)
       IN /\ cpu_libre' = r.cpu
          /\ mem_libre' = r.mem
          /\ IF Acabado(resto)
             THEN /\ procesos' = [procesos EXCEPT ![proc].restante = resto,
                                                  ![proc].recursos = r.rec,
                                                  ![proc].estado = "Terminado"]
                  /\ log' = Append(log, [ev |-> "finalizado", pid |-> proc])
                  /\ cola' = Append(cola, proc)
             ELSE /\ procesos' = [procesos EXCEPT ![proc].restante = resto,
                                                  ![proc].recursos = r.rec,
                                                  ![proc].estado = "Listo"]
                  /\ log' = log
                  /\ cola' = Append(cola, proc)
    /\ proc' = 0
    /\ uso' = 0
    /\ UNCHANGED <<algoritmo, quantum, cpu_total, buzon, pid_counter, pc, ret>>
    /\ UNCHANGED pcVars

\* Kernel.ejecutar, lines 96-103: the slice ends
ejecutar_fin_rodaja ==
    /\ pc = "run"
    /\ proc # 0
    /\ LET resto == procesos[proc].restante - uso
           r     == liberar(cpu_libre, mem_libre, procesos[proc].recursos)
       IN /\ cpu_libre' = r.cpu
          /\ mem_libre' = r.mem
          /\ IF Acabado(resto)
             THEN /\ procesos' = [procesos EXCEPT ![proc].restante = resto,
                                                  ![proc].recursos = r.rec,
                                                  ![proc].estado = "Terminado"]
                  /\ log' = Append(log, [ev |-> "finalizado", pid |-> proc])
                  /\ cola' = cola
             ELSE /\ procesos' = [procesos EXCEPT ![proc].restante = resto,
                                                  ![proc].recursos = r.rec,
                                                  ![proc].estado = "Listo"]
                  /\ log' = log
                  /\ cola' = Append(cola, proc)
    /\ proc' = 0
    /\ uso' = 0
    /\ UNCHANGED <<algoritmo, quantum, cpu_total, buzon, pid_counter, pc, ret>>
    /\ UNCHANGED pcVars

\* Kernel.ejecutar, line 86: the queue is empty and the call returns
ejecutar_retorno ==
    /\ pc = "run"
    /\ proc = 0
    /\ cola = << >>
    /\ pc' = "idle"
    /\ ret' = Llamada("ejecutar", None)
    /\ UNCHANGED <<algoritmo, quantum, procesos, cola, cpu_total, cpu_libre,
                   mem_libre, log, buzon, pid_counter, proc, uso>>
    /\ UNCHANGED pcVars

ejecutar ==
    \/ ejecutar_inicio
    \/ ejecutar_despacho
    \/ ejecutar_fin_rodaja
    \/ ejecutar_retorno

\* the kernel as the menu loop drives its scheduler
Next ==
    \/ \E prioridad \in Prioridades, rafaga \in Rafagas :
          nuevo_proceso(prioridad, rafaga)
    \/ ejecutar

Spec == Init /\ [][Next]_vars

\* ejecutar is an ordinary blocking call: once entered, its loop keeps going
ejecutar_paso ==
    \/ ejecutar_despacho
    \/ ejecutar_fin_rodaja
    \/ ejecutar_retorno

LiveSpec == Init /\ [][Next]_vars /\ WF_vars(ejecutar_paso)

\* names that none of the branches of ordenar_cola and ejecutar tests for
Desconocidos == {"RoundRobin", "LIFO"}

\* Kernel(nombre) built directly, with FCFS or with a name the code does not know
InitDefecto == InitCon({"FCFS"} \cup Desconocidos)

SpecDefecto == InitDefecto /\ [][Next]_vars

\* ------------------------------------------------- the pool, called directly
MemCantidades == {0, 2048, mem_total, mem_total + 1}
Cantidades(tipo) == IF tipo = "CPU" THEN 0..MaxCpu ELSE MemCantidades
PoolPrioridades == {1}
PoolRafagas == {2}

\* a caller's Recursos.asignar(pcb, tipo, cantidad) on the kernel's pool
asignar_directo(p, tipo, cantidad) ==
    /\ pc = "idle"
    /\ p \in DOMAIN procesos
    /\ LET r == asignar(cpu_libre, mem_libre, procesos[p].recursos, tipo, cantidad)
       IN /\ cpu_libre' = r.cpu
          /\ mem_libre' = r.mem
          /\ procesos' = [procesos EXCEPT ![p].recursos = r.rec]
          /\ ret' = Llamada("asignar", r.ok)
    /\ UNCHANGED <<algoritmo, quantum, cola, cpu_total, log, buzon, pid_counter,
                   pc, proc, uso>>
    /\ UNCHANGED pcVars

\* a caller's Recursos.liberar(pcb) on the kernel's pool
liberar_directo(p) ==
    /\ pc = "idle"
    /\ p \in DOMAIN procesos
    /\ LET r == liberar(cpu_libre, mem_libre, procesos[p].recursos)
       IN /\ cpu_libre' = r.cpu
          /\ mem_libre' = r.mem
          /\ procesos' = [procesos EXCEPT ![p].recursos = r.rec]
          /\ ret' = Llamada("liberar", None)
    /\ UNCHANGED <<algoritmo, quantum, cola, cpu_total, log, buzon, pid_counter,
                   pc, proc, uso>>
    /\ UNCHANGED pcVars

\* the scheduler together with direct calls on its pool between operations
NextPool ==
    \/ \E prioridad \in PoolPrioridades, rafaga \in PoolRafagas :
          nuevo_proceso(prioridad, rafaga)
    \/ ejecutar
    \/ \E p \in 1..MaxProcs, tipo \in Tipos :
          \E cantidad \in Cantidades(tipo) : asignar_directo(p, tipo, cantidad)
    \/ \E p \in 1..MaxProcs : liberar_directo(p)

SpecPool == Init /\ [][NextPool]_vars

\* ------------------------------------------------------------- the mailboxes
\* Kernel.enviar_mensaje
enviar_mensaje(de_pid, a_pid, mensaje) ==
    /\ pc = "idle"
    /\ Cardinality({i \in DOMAIN log : log[i].ev = "enviado"}) < MaxSend
    /\ LET b == IF a_pid \in DOMAIN buzon THEN buzon
                ELSE [d \in DOMAIN buzon \cup {a_pid} |->
                        IF d = a_pid THEN << >> ELSE buzon[d]]
       IN buzon' = [b EXCEPT ![a_pid] = Append(@, <<de_pid, mensaje>>)]
    /\ log' = Append(log, [ev |-> "enviado", de |-> de_pid, pid |-> a_pid,
                           mensaje |-> mensaje])
    /\ ret' = Llamada("enviar_mensaje", None)
    /\ UNCHANGED schedVars
    /\ UNCHANGED pcVars

\* dequeuing from the wrong end: the newest item, not the oldest
Sacar_ultimo(q) == [item |-> q[Len(q)], resto |-> SubSeq(q, 1, Len(q) - 1)]

\* what Kernel.recibir_mensaje takes out of the queue: queue.Queue.get
Sacar(q) == [item |-> Head(q), resto |-> Tail(q)]

\* handing the dequeued pair back to the caller
Devuelve_par(item) == item

\* what Kernel.recibir_mensaje hands back to its caller: it has no return
\* statement, the pair is only unpacked and logged
Devuelve(item) == None

\* Kernel.recibir_mensaje
recibir_mensaje(pid) ==
    /\ pc = "idle"
    /\ Cardinality({i \in DOMAIN log : log[i].ev \in {"recibido", "sin_mensajes"}})
          < MaxRecv
    /\ IF pid \in DOMAIN buzon /\ buzon[pid] # << >>
       THEN LET s == Sacar(buzon[pid])
            IN /\ buzon' = [buzon EXCEPT ![pid] = s.resto]
               /\ log' = Append(log, [ev |-> "recibido", pid |-> pid,
                                      de |-> s.item[1], mensaje |-> s.item[2]])
               /\ ret' = Llamada("recibir_mensaje", Devuelve(s.item))
       ELSE /\ buzon' = buzon
            /\ log' = Append(log, [ev |-> "sin_mensajes", pid |-> pid])
            /\ ret' = Llamada("recibir_mensaje", None)
    /\ UNCHANGED schedVars
    /\ UNCHANGED pcVars

\* Kernel("FCFS", 2) with the default pool
InitBuzon == Init /\ algoritmo = "FCFS" /\ cpu_total = 1

NextBuzon ==
    \/ \E de_pid \in BuzonPids, a_pid \in BuzonPids, mensaje \in Textos :
          enviar_mensaje(de_pid, a_pid, mensaje)
    \/ \E pid \in BuzonPids : recibir_mensaje(pid)

SpecBuzon == InitBuzon /\ [][NextBuzon]_vars

\* ------------------------------------------------- productor / consumidor
\* the item that the productor appends in iteration i: f"item-{i}"
Item(i) == <<"item", i>>

\* a thread at the start of its target function
Hilo(rol, lanz) ==
    [rol |-> rol, lanz |-> lanz, i |-> 0, pc |-> "acquire", item |-> None]

\* Kernel.productor_consumidor: a fresh local buffer and the two threads; the
\* call returns as soon as both are started
productor_consumidor ==
    /\ pc = "idle"
    /\ Len(buffers) < MaxLanz
    /\ buffers' = Append(buffers, << >>)
    /\ hilos' = hilos \o <<Hilo("productor", Len(buffers) + 1),
                           Hilo("consumidor", Len(buffers) + 1)>>
    /\ ret' = Llamada("productor_consumidor", None)
    /\ UNCHANGED <<schedVars, log, buzon, semaforo>>

\* an acquire that also passes when the semaphore is at zero
PuedeAdquirir_en_cero(s) == s >= 0

\* Semaphore.acquire blocks while the value is zero
PuedeAdquirir(s) == s > 0

\* a release that does not give the unit back
Liberado_perdido(s) == s

\* Semaphore.release adds one to the value
Liberado(s) == s + 1

\* taking the newest item of the buffer, not the oldest
pop_ultimo(b) == [item |-> b[Len(b)], resto |-> SubSeq(b, 1, Len(b) - 1)]

\* buffer.pop(0)
pop(b) == [item |-> Head(b), resto |-> Tail(b)]

\* self.semaforo.acquire() of either thread
acquire(h) ==
    /\ hilos[h].pc = "acquire"
    /\ PuedeAdquirir(semaforo)
    /\ semaforo' = semaforo - 1
    /\ hilos' = [hilos EXCEPT ![h].pc = "buffer"]
    /\ UNCHANGED <<schedVars, log, buzon, ret, buffers>>

\* productor, line 124: buffer.append(f"item-{i}")
append(h) ==
    /\ hilos[h].rol = "productor"
    /\ hilos[h].pc = "buffer"
    /\ buffers' = [buffers EXCEPT ![hilos[h].lanz] = Append(@, Item(hilos[h].i))]
    /\ hilos' = [hilos EXCEPT ![h].pc = "log", ![h].item = Item(hilos[h].i)]
    /\ UNCHANGED <<schedVars, log, buzon, ret, semaforo>>

\* consumidor, lines 132-133: the pop of the oldest item when there is one,
\* otherwise straight on to the release
pop_si_hay(h) ==
    /\ hilos[h].rol = "consumidor"
    /\ hilos[h].pc = "buffer"
    /\ IF buffers[hilos[h].lanz] # << >>
       THEN LET s == pop(buffers[hilos[h].lanz])
            IN /\ buffers' = [buffers EXCEPT ![hilos[h].lanz] = s.resto]
               /\ hilos' = [hilos EXCEPT ![h].pc = "log", ![h].item = s.item]
       ELSE /\ buffers' = buffers
            /\ hilos' = [hilos EXCEPT ![h].pc = "release"]
    /\ UNCHANGED <<schedVars, log, buzon, ret, semaforo>>

\* lines 125 and 134: the log_evento of the item, still inside the lock
log_item(h) ==
    /\ hilos[h].pc = "log"
    /\ log' = Append(log, [ev |-> IF hilos[h].rol = "productor"
                                  THEN "generado" ELSE "procesado",
                           item |-> hilos[h].item])
    /\ hilos' = [hilos EXCEPT ![h].pc = "release", ![h].item = None]
    /\ UNCHANGED <<schedVars, buzon, ret, semaforo, buffers>>

\* self.semaforo.release() of either thread
release(h) ==
    /\ hilos[h].pc = "release"
    /\ semaforo' = Liberado(semaforo)
    /\ hilos' = [hilos EXCEPT ![h].pc = "sleep"]
    /\ UNCHANGED <<schedVars, log, buzon, ret, buffers>>

\* time.sleep(0.1) ends: the next iteration of the for loop, or its end
sleep(h) ==
    /\ hilos[h].pc = "sleep"
    /\ hilos' = [hilos EXCEPT ![h].i = @ + 1,
                              ![h].pc = IF hilos[h].i + 1 < Iteraciones
                                        THEN "acquire" ELSE "fin"]
    /\ UNCHANGED <<schedVars, log, buzon, ret, semaforo, buffers>>

\* the thread running productor()
productor(h) ==
    /\ h \in DOMAIN hilos
    /\ hilos[h].rol = "productor"
    /\ \/ acquire(h)
       \/ append(h)
       \/ log_item(h)
       \/ release(h)
       \/ sleep(h)

\* the thread running consumidor()
consumidor(h) ==
    /\ h \in DOMAIN hilos
    /\ hilos[h].rol = "consumidor"
    /\ \/ acquire(h)
       \/ pop_si_hay(h)
       \/ log_item(h)
       \/ release(h)
       \/ sleep(h)

HiloIds == 1..(2 * MaxLanz)

NextPC ==
    \/ productor_consumidor
    \/ \E h \in HiloIds : productor(h)
    \/ \E h \in HiloIds : consumidor(h)

\* option 5 of the menu, repeated, and the threads it starts
SpecPC == InitBuzon /\ [][NextPC]_vars

\* option 5 of the menu chosen once
NextDemo ==
    \/ productor_consumidor /\ buffers = << >>
    \/ \E h \in HiloIds : productor(h)
    \/ \E h \in HiloIds : consumidor(h)

\* one demonstration; its threads are operating-system threads, and one that
\* can run does run
LiveSpecDemo ==
    /\ InitBuzon
    /\ [][NextDemo]_vars
    /\ \A h \in HiloIds : WF_vars(productor(h)) /\ WF_vars(consumidor(h))

\* ================================================================== claims
Pids == DOMAIN procesos

RECURSIVE Retenido(_, _)
Retenido(tipo, n) ==
    IF n = 0 THEN 0 ELSE procesos[n].recursos[tipo] + Retenido(tipo, n - 1)

\* the log positions at which process p was dispatched
Ejecuciones(p) == {i \in DOMAIN log : log[i].ev = "ejecutando" /\ log[i].pid = p}

\* the slices of p that have run to their end
RodajasHechas(p) == Cardinality(Ejecuciones(p)) - (IF proc = p THEN 1 ELSE 0)

\* C1: in every state, and so at every point between operations, the free CPU
\* plus the CPU held by all processes is cpu_total, the free memory plus the
\* memory held is mem_total, and both free counters stay within 0..total.
C1_Conservacion ==
    /\ cpu_libre + Retenido("CPU", pid_counter - 1) = cpu_total
    /\ mem_libre + Retenido("Memoria", pid_counter - 1) = mem_total
    /\ 0 <= cpu_libre /\ cpu_libre <= cpu_total
    /\ 0 <= mem_libre /\ mem_libre <= mem_total

\* between operations, two processes hold resources handed out by direct
\* calls and a third has been run to its end
C1_Witness ==
    /\ pc = "idle"
    /\ \E p, q, r \in Pids :
          /\ p # q
          /\ procesos[p].recursos.CPU > 0
          /\ procesos[q].recursos.Memoria > 0
          /\ procesos[r].estado = "Terminado"
          /\ procesos[r].rafaga > 0

\* C2: every process has 0 <= restante <= rafaga, and it is Terminado exactly
\* when restante is 0 and it has completed a slice (its last one).
C2_RestanteYEstado ==
    \A p \in Pids :
        /\ 0 <= procesos[p].restante
        /\ procesos[p].restante <= procesos[p].rafaga
        /\ procesos[p].estado = "Terminado"
             <=> (procesos[p].restante = 0 /\ RodajasHechas(p) >= 1)

\* one process ended by its last slice, another of burst 0 that is inside its
\* only slice (restante 0, not Terminado), a third cut short by the quantum
C2_Witness ==
    \E p, q, r \in Pids :
        /\ procesos[p].estado = "Terminado" /\ procesos[p].rafaga > 0
        /\ procesos[q].estado = "Ejecutando" /\ procesos[q].restante = 0
        /\ procesos[r].estado = "Listo"
        /\ 0 < procesos[r].restante /\ procesos[r].restante < procesos[r].rafaga

\* C3: every call of ejecutar returns, and at its return the ready queue is
\* empty and every process of the table is Terminado with restante 0.
C3_EjecutarVacia ==
    /\ (pc = "run") ~> (pc = "idle")
    /\ [][(pc = "run" /\ pc' = "idle") =>
            /\ cola' = << >>
            /\ \A p \in DOMAIN procesos' :
                  /\ procesos'[p].estado = "Terminado"
                  /\ procesos'[p].restante = 0]_vars

\* ejecutar has returned after draining three processes, one of burst 0
C3_Witness ==
    /\ pc = "idle"
    /\ ret.op = "ejecutar"
    /\ cola = << >>
    /\ pid_counter = 4
    /\ \E p, q \in Pids : procesos[p].rafaga = 0 /\ procesos[q].rafaga = MaxBurst
    /\ \A p \in Pids : procesos[p].estado = "Terminado"

\* the dispatches and the completions, in the order the log records them
Despachos == SelectSeq(log, LAMBDA e : e.ev = "ejecutando")
Finales   == SelectSeq(log, LAMBDA e : e.ev = "finalizado")

\* log positions i < j are dispatches of one call of ejecutar: no process was
\* created between them (a later call only finds processes created after it)
MismaEjecucion(i, j) ==
    /\ i < j
    /\ log[i].ev = "ejecutando"
    /\ log[j].ev = "ejecutando"
    /\ \A k \in i..j : log[k].ev # "creado"

\* C4: under FCFS processes are dispatched, and reach Terminado, in ascending
\* pid order, over any sequence of nuevo_proceso and ejecutar calls.
C4_FCFS ==
    algoritmo = "FCFS" =>
        /\ \A i, j \in DOMAIN Despachos :
              i < j => Despachos[i].pid < Despachos[j].pid
        /\ \A i, j \in DOMAIN Finales :
              i < j => Finales[i].pid < Finales[j].pid

\* three processes ended under FCFS although the first has the longest burst
\* and the lowest priority
C4_Witness ==
    /\ algoritmo = "FCFS"
    /\ Len(Finales) = 3
    /\ procesos[1].rafaga > procesos[2].rafaga
    /\ procesos[2].rafaga > procesos[3].rafaga
    /\ procesos[1].prioridad < procesos[3].prioridad

\* C5: under SJF the dispatches of one ejecutar are in ascending order of the
\* work the processes had left when it started (the uso of their dispatch,
\* which is all of it), and equal ones in submission (pid) order.
C5_SJF ==
    algoritmo = "SJF" =>
        \A i, j \in DOMAIN log :
            MismaEjecucion(i, j) =>
                /\ log[i].uso <= log[j].uso
                /\ log[i].uso = log[j].uso => log[i].pid < log[j].pid

\* bursts 3, 1, 1 submitted in that order and dispatched as pids 2, 3, 1
C5_Witness ==
    /\ algoritmo = "SJF"
    /\ Len(Despachos) = 3
    /\ <<Despachos[1].pid, Despachos[2].pid, Despachos[3].pid>> = <<2, 3, 1>>
    /\ <<Despachos[1].uso, Despachos[2].uso, Despachos[3].uso>> = <<1, 1, 3>>

\* C6: under Prioridad the dispatches of one ejecutar are in descending order
\* of priority, and equal priorities in submission (pid) order.
C6_Prioridad ==
    algoritmo = "Prioridad" =>
        \A i, j \in DOMAIN log :
            MismaEjecucion(i, j) =>
                /\ procesos[log[i].pid].prioridad >= procesos[log[j].pid].prioridad
                /\ procesos[log[i].pid].prioridad = procesos[log[j].pid].prioridad
                     => log[i].pid < log[j].pid

\* priorities 1, 3, 3 submitted in that order and dispatched as pids 2, 3, 1
C6_Witness ==
    /\ algoritmo = "Prioridad"
    /\ Len(Despachos) = 3
    /\ <<Despachos[1].pid, Despachos[2].pid, Despachos[3].pid>> = <<2, 3, 1>>
    /\ procesos[1].prioridad = 1
    /\ procesos[2].prioridad = 3
    /\ procesos[3].prioridad = 3

\* the CPU time the dispatches at log positions 1..n gave to process p
RECURSIVE UsadoHasta(_, _)
UsadoHasta(p, n) ==
    IF n = 0 THEN 0
    ELSE UsadoHasta(p, n - 1)
           + (IF log[n].ev = "ejecutando" /\ log[n].pid = p THEN log[n].uso ELSE 0)

Techo(b, q) == (b + q - 1) \div q

EnCola(p) == \E k \in DOMAIN cola : cola[k] = p

\* C7: under Round Robin every slice is min(restante, quantum) long and
\* restante falls by exactly the slices that have ended; a process of burst
\* b >= 1 is dispatched ceil(b / quantum) times in all; after a slice that
\* leaves restante > 0 it is Listo at the tail of the queue; and it is out of
\* the rotation (neither queued nor running) only once restante is 0.
C7_RoundRobin ==
    algoritmo = "RR" =>
        /\ \A i \in DOMAIN log :
              log[i].ev = "ejecutando" =>
                  log[i].uso =
                      Min(procesos[log[i].pid].rafaga - UsadoHasta(log[i].pid, i - 1),
                          quantum)
        /\ \A p \in Pids :
              /\ procesos[p].restante =
                    procesos[p].rafaga - UsadoHasta(p, Len(log))
                      + (IF proc = p THEN uso ELSE 0)
              /\ procesos[p].rafaga >= 1 =>
                    /\ Cardinality(Ejecuciones(p)) <= Techo(procesos[p].rafaga, quantum)
                    /\ procesos[p].estado = "Terminado" =>
                          Cardinality(Ejecuciones(p)) = Techo(procesos[p].rafaga, quantum)
              /\ EnCola(p) => procesos[p].estado = "Listo"
              /\ (~EnCola(p) /\ proc # p) => procesos[p].restante = 0
        /\ (proc = 0 /\ log # << >> /\ log[Len(log)].ev = "ejecutando") =>
              LET p == log[Len(log)].pid
              IN /\ procesos[p].restante > 0
                 /\ procesos[p].estado = "Listo"
                 /\ cola # << >>
                 /\ cola[Len(cola)] = p

\* quantum 2: a process of burst 3 got slices of 2 and 1, with another
\* process dispatched in between, and is Terminado after its second slice
C7_Witness ==
    /\ algoritmo = "RR"
    /\ quantum = 2
    /\ Len(Despachos) = 3
    /\ <<Despachos[1].pid, Despachos[2].pid, Despachos[3].pid>> = <<1, 2, 1>>
    /\ <<Despachos[1].uso, Despachos[2].uso, Despachos[3].uso>> = <<2, 2, 1>>
    /\ procesos[1].rafaga = 3
    /\ procesos[1].estado = "Terminado"
    /\ procesos[2].estado = "Listo"

\* the <<de_pid, mensaje>> pairs sent to d, and those delivered to d, as the
\* first n events of the log record them
Par(e) == <<e.de, e.mensaje>>

RECURSIVE Pares(_, _, _)
Pares(tipo, d, n) ==
    IF n = 0 THEN << >>
    ELSE IF log[n].ev = tipo /\ log[n].pid = d
         THEN Append(Pares(tipo, d, n - 1), Par(log[n]))
         ELSE Pares(tipo, d, n - 1)

Enviados(d, n)  == Pares("enviado", d, n)
Recibidos(d, n) == Pares("recibido", d, n)

Cola(d) == IF d \in DOMAIN buzon THEN buzon[d] ELSE << >>

\* C8: for every destination the messages delivered so far are, in order, the
\* first messages sent to it (the k-th delivery is the k-th message sent to
\* that pid, none twice, none of another destination), the mailbox holds the
\* rest, and a receive found no message only when all sent ones were consumed.
C8_BuzonFIFO ==
    /\ \A d \in BuzonPids :
          LET env == Enviados(d, Len(log))
              rec == Recibidos(d, Len(log))
          IN /\ Len(rec) <= Len(env)
             /\ rec = SubSeq(env, 1, Len(rec))
             /\ Cola(d) = SubSeq(env, Len(rec) + 1, Len(env))
    /\ \A i \in DOMAIN log :
          log[i].ev = "sin_mensajes" =>
              Len(Enviados(log[i].pid, i)) = Len(Recibidos(log[i].pid, i))

\* A, B, C sent to pid 1, three receives delivered A, B, C in that order and
\* the fourth found nothing
C8_Witness ==
    /\ Len(log) = 7
    /\ Enviados(1, 3) = <<<<2, "A">>, <<2, "B">>, <<2, "C">>>>
    /\ Recibidos(1, 6) = <<<<2, "A">>, <<2, "B">>, <<2, "C">>>>
    /\ log[7] = [ev |-> "sin_mensajes", pid |-> 1]

\* C9 as stated: recibir_mensaje returns the pair of the message it took out
\* of a non-empty mailbox, and nothing otherwise.
C9_DevuelvePar ==
    ret.op = "recibir_mensaje" =>
        IF log[Len(log)].ev = "recibido"
        THEN ret.val = Par(log[Len(log)])
        ELSE ret.val = None

\* C9 as the code has it: recibir_mensaje returns nothing in either case; the
\* oldest message of a non-empty mailbox is taken out and its pair appears
\* only in the "recibido" event; an absent or empty mailbox gives the
\* "sin_mensajes" event.
C9_SoloRegistra ==
    ret.op = "recibir_mensaje" =>
        LET n == Len(log)
            d == log[n].pid
        IN /\ ret.val = None
           /\ log[n].ev \in {"recibido", "sin_mensajes"}
           /\ log[n].ev = "recibido" =>
                 /\ Len(Recibidos(d, n)) <= Len(Enviados(d, n))
                 /\ Par(log[n]) = Enviados(d, n)[Len(Recibidos(d, n))]
           /\ log[n].ev = "sin_mensajes" =>
                 /\ Len(Enviados(d, n)) = Len(Recibidos(d, n))
                 /\ Cola(d) = << >>

\* a receive has just taken the older of two messages waiting for pid 2
C9_Witness ==
    /\ ret.op = "recibir_mensaje"
    /\ Len(log) = 3
    /\ log[3] = [ev |-> "recibido", pid |-> 2, de |-> 1, mensaje |-> "B"]
    /\ buzon[2] = <<<<2, "A">>>>

\* C10: asignar(p, tipo, cantidad) with cantidad >= 0 returns true exactly
\* when cantidad <= the free amount of tipo; then that free amount falls, and
\* p's holding of tipo grows, by cantidad, with the other kind and the other
\* processes untouched; otherwise it returns false and nothing changes.
C10_TodoONada ==
    [][\A p \in 1..MaxProcs, tipo \in Tipos :
         \A cantidad \in Cantidades(tipo) :
            (ret'.op = "asignar" /\ asignar_directo(p, tipo, cantidad)) =>
                LET otro   == IF tipo = "CPU" THEN "Memoria" ELSE "CPU"
                    libre  == [CPU |-> cpu_libre, Memoria |-> mem_libre]
                    libre2 == [CPU |-> cpu_libre', Memoria |-> mem_libre']
                IN /\ ret'.val = (cantidad <= libre[tipo])
                   /\ IF cantidad <= libre[tipo]
                      THEN /\ libre2[tipo] = libre[tipo] - cantidad
                           /\ libre2[otro] = libre[otro]
                           /\ procesos'[p].recursos[tipo]
                                = procesos[p].recursos[tipo] + cantidad
                           /\ procesos'[p].recursos[otro] = procesos[p].recursos[otro]
                           /\ \A q \in Pids \ {p} : procesos'[q] = procesos[q]
                      ELSE /\ libre2 = libre
                           /\ procesos' = procesos]_vars

\* an asignar has just been refused for lack of memory while the memory is
\* split between the pool and a process, and another process holds the CPU
C10_Witness ==
    /\ ret.op = "asignar"
    /\ ret.val = FALSE
    /\ mem_libre = 2048
    /\ cpu_libre = 0
    /\ \E p, q \in Pids :
          /\ p # q
          /\ procesos[p].recursos.Memoria = 2048
          /\ procesos[q].recursos.CPU = cpu_total

\* C11: liberar(p) gives all of p's CPU and memory back to the pool and leaves
\* p holding nothing, so that a liberar of a process that holds nothing (a
\* second liberar among them) leaves cpu_libre and mem_libre as they were.
C11_LiberarTotal ==
    [][\A p \in 1..MaxProcs :
         (ret'.op = "liberar" /\ liberar_directo(p)) =>
             /\ cpu_libre' = cpu_libre + procesos[p].recursos.CPU
             /\ mem_libre' = mem_libre + procesos[p].recursos.Memoria
             /\ procesos'[p].recursos = [CPU |-> 0, Memoria |-> 0]
             /\ \A q \in Pids \ {p} : procesos'[q] = procesos[q]
             /\ (ret.op = "liberar"
                   /\ procesos[p].recursos = [CPU |-> 0, Memoria |-> 0])
                  => (cpu_libre' = cpu_libre /\ mem_libre' = mem_libre)]_vars

\* a liberar has just returned: the CPU is all free again and one process
\* holds nothing, while another still holds half of the memory
C11_Witness ==
    /\ ret.op = "liberar"
    /\ cpu_libre = cpu_total
    /\ mem_libre = 2048
    /\ \E p, q \in Pids :
          /\ procesos[p].recursos = [CPU |-> 0, Memoria |-> 0]
          /\ procesos[p].estado = "Terminado"
          /\ procesos[q].recursos = [CPU |-> 0, Memoria |-> 2048]

\* C12: with cpu_total = 1, while a process holds the CPU unit, ejecutar's
\* admission attempt for another process is denied: the process goes to the
\* tail of the queue, no record and no pool counter changes, and the denial
\* is logged; and the processes never hold more CPU than cpu_total together.
C12_Admision ==
    /\ [](Retenido("CPU", pid_counter - 1) <= cpu_total)
    /\ [][(/\ cpu_total = 1
           /\ ejecutar_despacho
           /\ \E q \in Pids \ {Head(cola)} : procesos[q].recursos.CPU = 1) =>
              /\ cola' = Append(Tail(cola), Head(cola))
              /\ log' = Append(log, [ev |-> "reprogramado", pid |-> Head(cola)])
              /\ procesos' = procesos
              /\ cpu_libre' = cpu_libre
              /\ proc' = 0]_vars

\* process 1 holds the only CPU unit and process 2 has just been denied: it
\* is Listo with all its work left, at the tail of the queue
C12_Witness ==
    /\ cpu_total = 1
    /\ pid_counter = 3
    /\ procesos[1].recursos.CPU = 1
    /\ log # << >>
    /\ log[Len(log)] = [ev |-> "reprogramado", pid |-> 2]
    /\ cola = <<1, 2>>
    /\ procesos[2].estado = "Listo"
    /\ procesos[2].restante = procesos[2].rafaga
    /\ procesos[2].recursos.CPU = 0

\* the creation events logged so far, oldest first
Creados == SelectSeq(log, LAMBDA e : e.ev = "creado")

\* C13: the n-th nuevo_proceso of a kernel creates the process of pid n: the
\* pids in the table are 1..n, none is reused or overwritten, the new record
\* is Listo with restante = rafaga and no holdings, it is appended to the tail
\* of the queue, and every record that existed is left as it was.
C13_PidsNuevos ==
    /\ [](/\ DOMAIN procesos = 1..Len(Creados)
          /\ \A k \in 1..Len(Creados) :
                Creados[k].pid = k /\ procesos[k].pid = k)
    /\ [][\A prioridad \in Prioridades, rafaga \in Rafagas :
            nuevo_proceso(prioridad, rafaga) =>
               LET n == Len(Creados) + 1
               IN /\ n \notin DOMAIN procesos
                  /\ DOMAIN procesos' = DOMAIN procesos \cup {n}
                  /\ procesos'[n].pid = n
                  /\ procesos'[n].estado = "Listo"
                  /\ procesos'[n].rafaga = rafaga
                  /\ procesos'[n].restante = rafaga
                  /\ procesos'[n].prioridad = prioridad
                  /\ procesos'[n].recursos = [CPU |-> 0, Memoria |-> 0]
                  /\ cola' = Append(cola, n)
                  /\ \A q \in DOMAIN procesos : procesos'[q] = procesos[q]]_vars

\* the third nuevo_proceso has just created pid 3 behind pid 2, after pid 1
\* ran to its end
C13_Witness ==
    /\ ret.op = "nuevo_proceso"
    /\ Len(Creados) = 3
    /\ cola = <<2, 3>>
    /\ procesos[1].estado = "Terminado"
    /\ procesos[3].estado = "Listo"
    /\ procesos[3].restante = 3

\* C14: a process that is Terminado is not in the queue and is not the one
\* being run, no step dispatches it, and no step of nuevo_proceso or ejecutar
\* changes its estado, restante or recursos or takes it out of the table.
C14_TerminadoFinal ==
    /\ [](\A p \in Pids :
            procesos[p].estado = "Terminado" => ~EnCola(p) /\ proc # p)
    /\ [][\A p \in Pids :
            procesos[p].estado = "Terminado" =>
               /\ p \in DOMAIN procesos'
               /\ procesos'[p].estado = "Terminado"
               /\ procesos'[p].restante = procesos[p].restante
               /\ procesos'[p].recursos = procesos[p].recursos
               /\ proc' # p
               /\ Len(log') > Len(log) =>
                     ~(log'[Len(log')].ev = "ejecutando" /\ log'[Len(log')].pid = p)
         ]_vars

\* process 1 ended in one ejecutar; process 2 was created afterwards and a
\* later ejecutar is running it
C14_Witness ==
    /\ pc = "run"
    /\ proc = 2
    /\ 1 \in Pids
    /\ procesos[1].estado = "Terminado"
    /\ \E i, j \in DOMAIN log :
          /\ i < j
          /\ log[i] = [ev |-> "finalizado", pid |-> 1]
          /\ log[j].ev = "creado"
          /\ log[j].pid = 2

\* C19: under FCFS, SJF and Prioridad every dispatch takes the whole restante
\* of the process as its slice, the slice ends with the process Terminado and
\* the queue as it was (the requeue of line 103 is not taken), no process is
\* dispatched twice, and when ejecutar has returned every process has been
\* dispatched exactly once and is Terminado.
C19_UnaRodaja ==
    /\ [](algoritmo # "RR" =>
            /\ \A i \in DOMAIN log :
                  log[i].ev = "ejecutando" =>
                     log[i].uso = procesos[log[i].pid].rafaga
            /\ \A p \in Pids : Cardinality(Ejecuciones(p)) <= 1
            /\ (pc = "idle" /\ ret.op = "ejecutar") =>
                  /\ cola = << >>
                  /\ \A p \in Pids :
                        /\ Cardinality(Ejecuciones(p)) = 1
                        /\ procesos[p].estado = "Terminado")
    /\ [][(algoritmo # "RR" /\ ejecutar_despacho) =>
             /\ proc' = Head(cola)
             /\ uso' = procesos[Head(cola)].restante]_vars
    /\ [][(algoritmo # "RR" /\ ejecutar_fin_rodaja) =>
             /\ procesos'[proc].estado = "Terminado"
             /\ procesos'[proc].restante = 0
             /\ cola' = cola]_vars

\* an SJF ejecutar has returned after running three processes, one of them
\* with a burst above the default quantum
C19_Witness ==
    /\ algoritmo = "SJF"
    /\ pc = "idle"
    /\ ret.op = "ejecutar"
    /\ Len(Despachos) = 3
    /\ Len(Finales) = 3
    /\ \E p \in Pids : procesos[p].rafaga = 3 /\ procesos[p].estado = "Terminado"

\* C20: in a kernel driven by nuevo_proceso and ejecutar, whenever ejecutar is
\* not inside a slice (at each of its admission attempts and between calls)
\* every process holds nothing and the pool is full; inside a slice only the
\* running process holds one CPU; every admission attempt of ejecutar succeeds,
\* no denial is ever logged, and mem_libre is always mem_total.
C20_SinRetencion ==
    /\ [](/\ mem_libre = mem_total
          /\ Denegados = 0
          /\ proc = 0 =>
                /\ cpu_libre = cpu_total
                /\ \A p \in Pids :
                      procesos[p].recursos = [CPU |-> 0, Memoria |-> 0]
          /\ proc # 0 =>
                /\ cpu_libre = cpu_total - 1
                /\ \A p \in Pids :
                      procesos[p].recursos =
                         [CPU |-> IF p = proc THEN 1 ELSE 0, Memoria |-> 0])
    /\ [][ejecutar_despacho =>
             /\ proc' = Head(cola)
             /\ procesos'[Head(cola)].estado = "Ejecutando"
             /\ log'[Len(log')].ev = "ejecutando"]_vars

\* with a single CPU, ejecutar is at an admission attempt right after a
\* process finished and released it
C20_Witness ==
    /\ cpu_total = 1
    /\ pc = "run"
    /\ proc = 0
    /\ cola # << >>
    /\ log[Len(log)].ev = "finalizado"
    /\ cpu_libre = 1

\* the pids of a sequence of events, in the order of the events
RECURSIVE PidsDe(_)
PidsDe(es) == IF es = << >> THEN << >> ELSE <<Head(es).pid>> \o PidsDe(Tail(es))

Creciente(s) == \A i, j \in DOMAIN s : i < j => s[i] < s[j]

\* C16: a kernel whose discipline name is none of FCFS, SJF, RR, Prioridad
\* takes at every step of ejecutar the step the FCFS code takes from the same
\* state (the queue ordered by pid, the head dispatched for its whole
\* restante), so that, like the FCFS kernel, it dispatches and ends the
\* processes in the order of their pids and leaves each of them Terminado
\* with restante 0.
C16_PorDefectoFCFS ==
    /\ [][algoritmo \notin Algoritmos =>
            /\ ejecutar_inicio =>
                  cola' = OrdenEstable(cola,
                             [p \in DOMAIN procesos |-> procesos[p].pid])
            /\ ejecutar_despacho =>
                  /\ proc' = Head(cola)
                  /\ uso' = procesos[Head(cola)].restante
                  /\ cola' = Tail(cola)
            /\ ejecutar_fin_rodaja =>
                  /\ procesos'[proc].estado = "Terminado"
                  /\ cola' = cola]_vars
    /\ [](/\ Creciente(PidsDe(Despachos))
          /\ Creciente(PidsDe(Finales))
          /\ \A i \in DOMAIN Despachos :
                Despachos[i].uso = procesos[Despachos[i].pid].rafaga
          /\ (pc = "idle" /\ ret.op = "ejecutar") =>
                \A p \in Pids : /\ procesos[p].estado = "Terminado"
                                /\ procesos[p].restante = 0
                                /\ procesos[p].recursos = [CPU |-> 0, Memoria |-> 0])

\* a kernel named LIFO, with quantum 1, has run three processes in the order
\* of their pids; two of them were queued together and one has burst 3
C16_Witness ==
    /\ algoritmo = "LIFO"
    /\ quantum = 1
    /\ pc = "idle"
    /\ ret.op = "ejecutar"
    /\ PidsDe(Despachos) = <<1, 2, 3>>
    /\ PidsDe(Finales) = <<1, 2, 3>>
    /\ log[1].ev = "creado"
    /\ log[2].ev = "creado"
    /\ procesos[2].rafaga = 3

\* the thread is between its acquire and its release
EnSeccion(h) == hilos[h].pc \in {"buffer", "log", "release"}

Dentro == {h \in DOMAIN hilos : EnSeccion(h)}

\* C15: among the threads of all the productor_consumidor calls of a kernel at
\* most one is between its acquire and its release; the semaphore is taken
\* exactly while one is, so a thread in its sleep holds nothing; and a buffer
\* or the log changes only by the step of the one thread inside.
C15_ExclusionMutua ==
    /\ [](/\ Cardinality(Dentro) <= 1
          /\ semaforo = ValorInicial - Cardinality(Dentro)
          /\ \A h \in DOMAIN hilos :
                hilos[h].pc = "sleep" =>
                   ~EnSeccion(h) /\ semaforo + Cardinality(Dentro \ {h}) = 1)
    /\ [][(buffers' # buffers /\ Len(buffers') = Len(buffers)) \/ log' # log =>
            \E h \in Dentro :
               /\ hilos'[h] # hilos[h]
               /\ \A g \in DOMAIN hilos \ {h} :
                     ~EnSeccion(g) /\ hilos'[g] = hilos[g]]_vars

\* two calls: the productor of the second is inside, logging its item, while
\* the productor of the first sleeps and both consumidores wait at the acquire
C15_Witness ==
    /\ Len(hilos) = 4
    /\ hilos[3].pc = "log"
    /\ hilos[1].pc = "sleep"
    /\ hilos[2].pc = "acquire"
    /\ hilos[4].pc = "acquire"
    /\ semaforo = 0

Acabados == hilos # << >> /\ \A h \in DOMAIN hilos : hilos[h].pc = "fin"

Generados  == SelectSeq(log, LAMBDA e : e.ev = "generado")
Procesados == SelectSeq(log, LAMBDA e : e.ev = "procesado")

\* C17: under fair scheduling each thread of a demonstration reaches the end of
\* its function, and it does so after exactly Iteraciones iterations; while a
\* thread is left some thread can step; the consumidor that finds the buffer
\* empty goes on to its release without waiting; and when both threads have
\* ended the semaphore is free and the productor has generated Iteraciones
\* items.
C17_Termina ==
    /\ \A h \in HiloIds :
          (h \in DOMAIN hilos) ~> (h \in DOMAIN hilos /\ hilos[h].pc = "fin")
    /\ [](\A h \in DOMAIN hilos :
             /\ hilos[h].i <= Iteraciones
             /\ hilos[h].pc = "fin" <=> hilos[h].i = Iteraciones)
    /\ []((\E h \in DOMAIN hilos : hilos[h].pc # "fin") =>
             \E h \in DOMAIN hilos : ENABLED (productor(h) \/ consumidor(h)))
    /\ [](\A h \in DOMAIN hilos :
             (hilos[h].rol = "consumidor" /\ hilos[h].pc = "buffer") =>
                ENABLED consumidor(h))
    /\ [][\A h \in DOMAIN hilos :
             (/\ consumidor(h)
              /\ hilos[h].pc = "buffer"
              /\ buffers[hilos[h].lanz] = << >>) =>
                /\ hilos'[h].pc = "release"
                /\ buffers' = buffers
                /\ log' = log]_vars
    /\ [](Acabados =>
             /\ semaforo = 1
             /\ Len(Generados) = Iteraciones
             /\ Len(Procesados) <= Iteraciones)

\* both threads have ended; the consumidor found the buffer empty once, so
\* one item is left
C17_Witness ==
    /\ Acabados
    /\ semaforo = 1
    /\ Len(Procesados) = 2
    /\ Len(buffers[1]) = 1

\* the items the productor of call l has appended so far
Hecho(l) ==
    hilos[2 * l - 1].i +
       (IF hilos[2 * l - 1].pc \in {"log", "release", "sleep"} THEN 1 ELSE 0)

\* the items a .. b - 1, in order
Tramo(a, b) == [k \in 1..(b - a) |-> Item(a + k - 1)]

ItemsDe(es) == [k \in DOMAIN es |-> es[k].item]

\* C18: the consumidor takes an item only from a buffer that has one, and it
\* takes the oldest; the buffer of every call holds the last items appended,
\* in order, so what has been consumed are the first ones, each once; and, for
\* a single call, the items logged as processed are a prefix of the items
\* logged as generated (item-0, item-1, item-2 in that order), and when both
\* threads have ended the buffer holds the generated items that were not
\* processed, in order.
C18_PrefijoConsumido ==
    /\ [](\A l \in DOMAIN buffers :
            /\ Len(buffers[l]) <= Hecho(l)
            /\ buffers[l] = Tramo(Hecho(l) - Len(buffers[l]), Hecho(l))
            /\ hilos[2 * l].pc = "log" =>
                  /\ Hecho(l) > Len(buffers[l])
                  /\ hilos[2 * l].item = Item(Hecho(l) - Len(buffers[l]) - 1))
    /\ [][\A h \in DOMAIN hilos :
            (/\ hilos[h].rol = "consumidor"
             /\ hilos[h].pc = "buffer"
             /\ hilos'[h].pc = "log") =>
                /\ buffers[hilos[h].lanz] # << >>
                /\ hilos'[h].item = Head(buffers[hilos[h].lanz])
                /\ buffers'[hilos[h].lanz] = Tail(buffers[hilos[h].lanz])]_vars
    /\ [](Len(buffers) = 1 =>
            /\ Len(Generados) <= Iteraciones
            /\ ItemsDe(Generados) = Tramo(0, Len(Generados))
            /\ Len(Procesados) <= Len(Generados)
            /\ ItemsDe(Procesados) = Tramo(0, Len(Procesados))
            /\ Acabados =>
                  buffers[1] = Tramo(Len(Procesados), Iteraciones))

\* a single call has ended: the consumidor found the buffer empty twice,
\* processed item-0, and item-1 and item-2 are left in the buffer
C18_Witness ==
    /\ Len(buffers) = 1
    /\ Acabados
    /\ ItemsDe(Procesados) = <<Item(0)>>
    /\ buffers[1] = <<Item(1), Item(2)>>

====
